---- MODULE Spec2Model ----
(***************************************************************************)
(* Model of generate_snowplow_dbt_projects.py: the slug normaliser, the    *)
(* variables builder and the per-record project assembly with its          *)
(* directory-collision handling.                                           *)
(*                                                                         *)
(* Strings are sequences of one-character tokens, so that lower(), strip() *)
(* and the regular-expression substitutions are computed character by      *)
(* character as Python computes them.                                      *)
(***************************************************************************)
EXTENDS Integers, Sequences, FiniteSets, TLC

VARIABLES
    \* ---- slugify applied to a name, and to its own result
    name, slug1, slug2, spc,
    \* ---- configuration building for one customer record
    customer_json, cpc, project_name, dir_name, vars_block, raised,
    \* ---- main(): the batch loop and the output root on disk
    inputs, idx, pc, project_dir, response, now, disk

slugVars == <<name, slug1, slug2, spc>>
cfgVars  == <<customer_json, cpc, project_name, dir_name, vars_block, raised>>
fsVars   == <<inputs, idx, pc, project_dir, response, now, disk>>
vars     == <<slugVars, cfgVars, fsVars>>

(***************************************************************************)
(* Bounds of the model.                                                    *)
(***************************************************************************)
MaxLen   == 4   \* longest name given to slugify in SpecSlug
MaxBatch == 3   \* most records in one batch
MaxTime  == 2   \* distinct seconds the wall clock can show

(***************************************************************************)
(* Characters.                                                             *)
(***************************************************************************)
UpperLetters ==
    <<"A","B","C","D","E","F","G","H","I","J","K","L","M",
      "N","O","P","Q","R","S","T","U","V","W","X","Y","Z">>
LowerLetters ==
    <<"a","b","c","d","e","f","g","h","i","j","k","l","m",
      "n","o","p","q","r","s","t","u","v","w","x","y","z">>
Digits == {"0","1","2","3","4","5","6","7","8","9"}

Range(s) == {s[i] : i \in DOMAIN s}

IsUpper(c) == c \in Range(UpperLetters)
IsAlnum(c) == c \in Range(UpperLetters) \cup Range(LowerLetters) \cup Digits
\* \w of the re module: alphanumerics and the underscore
IsWord(c)  == IsAlnum(c) \/ c = "_"
\* \s of the re module, and the characters str.strip() removes
IsSpace(c) == c \in {" ", "\t", "\n"}

\* str.lower() on one character
LowerChar(c) ==
    IF IsUpper(c)
    THEN LowerLetters[CHOOSE i \in DOMAIN UpperLetters : UpperLetters[i] = c]
    ELSE c

\* str.lower()
Lower(s) == [i \in DOMAIN s |-> LowerChar(s[i])]

RECURSIVE LStrip(_)
LStrip(s) == IF s # <<>> /\ IsSpace(Head(s)) THEN LStrip(Tail(s)) ELSE s

RECURSIVE RStrip(_)
RStrip(s) ==
    IF s # <<>> /\ IsSpace(s[Len(s)]) THEN RStrip(SubSeq(s, 1, Len(s) - 1)) ELSE s

\* str.strip()
Strip(s) == RStrip(LStrip(s))

(***************************************************************************)
(* slugify, one definition per statement.                                  *)
(***************************************************************************)
KeptBySlug(c) == IsWord(c) \/ IsSpace(c) \/ c = "-"

\* re.sub(r"[^\w\s-]", "", s)
RemoveDisallowed(s) == SelectSeq(s, KeptBySlug)

RECURSIVE DropWhileSpace(_)
DropWhileSpace(s) ==
    IF s # <<>> /\ IsSpace(Head(s)) THEN DropWhileSpace(Tail(s)) ELSE s

\* re.sub(r"\s+", "-", s)
RECURSIVE SubSpaceRuns(_)
SubSpaceRuns(s) ==
    IF s = <<>> THEN <<>>
    ELSE IF IsSpace(Head(s)) THEN <<"-">> \o SubSpaceRuns(DropWhileSpace(s))
    ELSE <<Head(s)>> \o SubSpaceRuns(Tail(s))

RECURSIVE DropWhileDash(_)
DropWhileDash(s) ==
    IF s # <<>> /\ Head(s) = "-" THEN DropWhileDash(Tail(s)) ELSE s

\* re.sub(r"-+", "-", s)
RECURSIVE SubDashRuns(_)
SubDashRuns(s) ==
    IF s = <<>> THEN <<>>
    ELSE IF Head(s) = "-" THEN <<"-">> \o SubDashRuns(DropWhileDash(s))
    ELSE <<Head(s)>> \o SubDashRuns(Tail(s))

\* a slugify that collapses the dashes before it turns whitespace into dashes
slugify_dashes_first(s) ==
    SubSpaceRuns(Strip(SubDashRuns(RemoveDisallowed(Lower(s)))))

slugify(s) == SubDashRuns(SubSpaceRuns(Strip(RemoveDisallowed(Lower(s)))))

(***************************************************************************)
(* SpecSlug: slugify on every name of at most MaxLen characters over an    *)
(* alphabet with one character of each class the function distinguishes.   *)
(***************************************************************************)
SlugAlphabet == {"A", "a", "1", "_", " ", "-", "."}

RECURSIVE SeqsUpTo(_, _)
SeqsUpTo(S, n) ==
    IF n = 0 THEN {<<>>}
    ELSE LET shorter == SeqsUpTo(S, n - 1)
         IN  shorter \cup {Append(s, c) : s \in shorter, c \in S}

NoSlug == <<"<unset>">>


SlugInit ==
    /\ name \in SeqsUpTo(SlugAlphabet, MaxLen)
    /\ slug1 = NoSlug
    /\ slug2 = NoSlug
    /\ spc = "input"

SlugIdle ==
    /\ name = <<>>
    /\ slug1 = NoSlug
    /\ slug2 = NoSlug
    /\ spc = "idle"

\* slug = slugify(brand)
SlugOnce ==
    /\ spc = "input"
    /\ slug1' = slugify(name)
    /\ spc' = "once"
    /\ UNCHANGED <<name, slug2, cfgVars, fsVars>>

\* slugify(slugify(brand))
SlugTwice ==
    /\ spc = "once"
    /\ slug2' = slugify(slug1)
    /\ spc' = "twice"
    /\ UNCHANGED <<name, slug1, cfgVars, fsVars>>

(***************************************************************************)
(* JSON values as Python holds them after json.loads.  t is the type, v    *)
(* the characters of a string (the digits of a number, the items of a      *)
(* list), d the items of a mapping.                                        *)
(***************************************************************************)
\* an empty dict
EmptyMap == [k \in {} |-> <<>>]

Absent     == [t |-> "absent", v |-> <<>>, d |-> EmptyMap]
None       == [t |-> "null",   v |-> <<>>, d |-> EmptyMap]
Str(s)     == [t |-> "str",    v |-> s,    d |-> EmptyMap]
Num(ds)    == [t |-> "num",    v |-> ds,   d |-> EmptyMap]
List(xs)   == [t |-> "list",   v |-> xs,   d |-> EmptyMap]
Dict(m)    == [t |-> "dict",   v |-> <<>>, d |-> m]
BoolVal(b) == [t |-> "bool", v |-> IF b THEN <<"true">> ELSE <<"false">>,
               d |-> EmptyMap]

\* bool(x) as the if statements of the builder take it
Truthy(x) ==
    CASE x.t = "null" -> FALSE
      [] x.t = "str"  -> x.v # <<>>
      [] x.t = "num"  -> x.v # <<"0">>
      [] x.t = "bool" -> x.v = <<"true">>
      [] x.t = "list" -> x.v # <<>>
      [] x.t = "dict" -> DOMAIN x.d # {}
      [] OTHER        -> FALSE

\* dict.get(key, default): the default only when the key is missing
Get(json, key, default) ==
    IF json[key].t = "absent" THEN default ELSE json[key]

\* vars_block[key] = value
Put(m, key, value) ==
    [k \in DOMAIN m \cup {key} |-> IF k = key THEN value ELSE m[k]]

\* vars_block.update(user_vars)
Update(m, other) ==
    [k \in DOMAIN m \cup DOMAIN other |-> IF k \in DOMAIN other THEN other[k] ELSE m[k]]

Return(x)  == [exc |-> "", value |-> x]
Raise(e)   == [exc |-> e, value |-> EmptyMap]

yes == <<"y", "e", "s">>
unnamed_brand == <<"u","n","n","a","m","e","d","_","b","r","a","n","d">>

\* a builder that merges user_set_variables after the derived keys
build_snowplow_vars_user_last(cj) ==
    LET user_vars  == Get(cj, "user_set_variables", Dict(EmptyMap))
        start_date == Get(cj, "historical_data_since", None)
        b1 == IF Truthy(start_date)
              THEN Put(EmptyMap, "snowplow__start_date", start_date) ELSE EmptyMap
        mobile == Get(cj, "mobile_tracking", Str(<<>>))
        web    == Get(cj, "web_tracking", Str(<<>>))
        b2 == Put(b1, "snowplow__enable_mobile_data", BoolVal(Lower(mobile.v) = yes))
        b3 == Put(b2, "snowplow__enable_web_data", BoolVal(Lower(web.v) = yes))
        app_ids == Get(cj, "app_ids", None)
        b4 == IF Truthy(app_ids) THEN Put(b3, "snowplow__app_ids", app_ids) ELSE b3
        b5 == Put(b4, "snowplow__brand_name", Get(cj, "brand_name", None))
        b6 == IF user_vars.t = "dict" THEN Update(b5, user_vars.d) ELSE b5
    IN  IF mobile.t # "str" \/ web.t # "str" THEN Raise("AttributeError")
        ELSE Return(b6)

build_snowplow_vars(cj) ==
    LET user_vars  == Get(cj, "user_set_variables", Dict(EmptyMap))
        b0 == IF user_vars.t = "dict" THEN Update(EmptyMap, user_vars.d) ELSE EmptyMap
        start_date == Get(cj, "historical_data_since", None)
        b1 == IF Truthy(start_date) THEN Put(b0, "snowplow__start_date", start_date) ELSE b0
        mobile == Get(cj, "mobile_tracking", Str(<<>>))
        web    == Get(cj, "web_tracking", Str(<<>>))
        b2 == Put(b1, "snowplow__enable_mobile_data", BoolVal(Lower(mobile.v) = yes))
        b3 == Put(b2, "snowplow__enable_web_data", BoolVal(Lower(web.v) = yes))
        app_ids == Get(cj, "app_ids", None)
        b4 == IF Truthy(app_ids) THEN Put(b3, "snowplow__app_ids", app_ids) ELSE b3
        b5 == Put(b4, "snowplow__brand_name", Get(cj, "brand_name", None))
    IN  \* .lower() exists on str only
        IF mobile.t # "str" THEN Raise("AttributeError")
        ELSE IF web.t # "str" THEN Raise("AttributeError")
        ELSE Return(b5)

(***************************************************************************)
(* SpecConfig: the names and the variables subtree built for one customer  *)
(* record, for every combination of the field values below.                *)
(***************************************************************************)
AcmeCo == <<"A","c","m","e"," ","C","o",".">>
X      == <<"X">>

BrandValues    == {Absent, None, Str(<<>>), Str(AcmeCo), Num(<<"7">>)}
TrackingValues == {Absent, None, Str(yes), Str(<<"Y","e","S">>), Str(<<"n","o">>),
                   Str(<<"y","e","s"," ">>), BoolVal(TRUE)}
DateValues     == {Absent, None, Str(<<>>),
                   Str(<<"2","0","2","3","-","0","1","-","0","1">>)}
AppIdValues    == {Absent, List(<<>>), List(<<"app1", "app2">>), Str(<<"a">>)}

DerivedKeys ==
    {"snowplow__start_date", "snowplow__enable_mobile_data",
     "snowplow__enable_web_data", "snowplow__app_ids", "snowplow__brand_name"}

UserVarValues ==
    {Absent, None, Str(X), Dict(EmptyMap),
     Dict([k \in {"snowplow__brand_name"} |-> Str(X)]),
     Dict([k \in {"custom_var"} |-> Num(<<"5">>)]),
     Dict([k \in DerivedKeys \cup {"custom_var"} |-> Str(X)])}

NoExc == [in |-> "", exc |-> ""]

ConfigInit ==
    /\ customer_json \in
         [brand_name : BrandValues, historical_data_since : DateValues,
          mobile_tracking : TrackingValues, web_tracking : TrackingValues,
          app_ids : AppIdValues, user_set_variables : UserVarValues]
    /\ cpc = "start"
    /\ project_name = <<>>
    /\ dir_name = <<>>
    /\ vars_block = EmptyMap
    /\ raised = NoExc

ConfigIdle ==
    /\ customer_json = EmptyMap
    /\ cpc = "idle"
    /\ project_name = <<>>
    /\ dir_name = <<>>
    /\ vars_block = EmptyMap
    /\ raised = NoExc

\* brand = customer_json.get("brand_name", "unnamed_brand")
brand_of(cj) == Get(cj, "brand_name", Str(unnamed_brand))

\* f"dbt_{slug}"
DirNameOf(slug) == <<"dbt_">> \o slug

\* f"snowplow_unified_for_{slug}"
ProjectNameOf(slug) == <<"snowplow_unified_for_">> \o slug

\* generate_project_for_customer up to the project's names
DeriveNames ==
    /\ cpc = "start"
    /\ LET brand == brand_of(customer_json)
       IN  IF brand.t # "str"
           THEN /\ raised' = [in |-> "slugify", exc |-> "AttributeError"]
                /\ cpc' = "raised"
                /\ UNCHANGED <<project_name, dir_name>>
           ELSE /\ dir_name' = DirNameOf(slugify(brand.v))
                /\ project_name' = ProjectNameOf(slugify(brand.v))
                /\ cpc' = "named"
                /\ UNCHANGED raised
    /\ UNCHANGED <<customer_json, vars_block, slugVars, fsVars>>

\* snowplow_vars = build_snowplow_vars(customer_json)
BuildVars ==
    /\ cpc = "named"
    /\ LET r == build_snowplow_vars(customer_json)
       IN  IF r.exc # ""
           THEN /\ raised' = [in |-> "build_snowplow_vars", exc |-> r.exc]
                /\ cpc' = "raised"
                /\ UNCHANGED vars_block
           ELSE /\ vars_block' = r.value
                /\ cpc' = "built"
                /\ UNCHANGED raised
    /\ UNCHANGED <<customer_json, project_name, dir_name, slugVars, fsVars>>

(***************************************************************************)
(* The output root on disk.  A path is a sequence of directory names below *)
(* the output root; disk maps each directory that exists to its entries,   *)
(* and an entry to what wrote it: gen is the position in the batch of the  *)
(* record that generated it (0: it was there before the batch), project    *)
(* the slug it was generated for.                                          *)
(***************************************************************************)
Artifacts == <<"packages.yml", "dbt_project.yml", "profiles.example.yml", "README.md">>

\* datetime.datetime.now().strftime("%Y%m%d_%H%M%S"): one name per second
strftime(t) == <<ToString(t)>>

\* f"{project_dir.name}_old_{now}"
OldNameOf(dirname, t) == dirname \o <<"_old_">> \o strftime(t)

HasPrefix(p, pre) == Len(p) >= Len(pre) /\ SubSeq(p, 1, Len(pre)) = pre

Moved(p, src, dst) ==
    IF HasPrefix(p, src) THEN dst \o SubSeq(p, Len(src) + 1, Len(p)) ELSE p

\* os.rename(src, dst) of a directory, dst not existing
Rename(d, src, dst) ==
    [q \in {Moved(p, src, dst) : p \in DOMAIN d} |->
        d[CHOOSE p \in DOMAIN d : Moved(p, src, dst) = q]]

\* shutil.move(src, dst): into dst when dst is an existing directory, and an
\* Error when the name is taken there too
move(d, src, dst) ==
    LET real_dst == IF dst \in DOMAIN d THEN dst \o <<src[Len(src)]>> ELSE dst
    IN  IF real_dst \in DOMAIN d
        THEN [exc |-> "shutil.Error", value |-> d]
        ELSE [exc |-> "", value |-> Rename(d, src, real_dst)]

\* an rmtree that removes nothing
rmtree_keeps(d, p) == d

\* shutil.rmtree(p)
rmtree(d, p) == [q \in {q \in DOMAIN d : ~HasPrefix(q, p)} |-> d[q]]

\* an answer check that overwrites unless the answer is "n"
Overwrite_unless_n(r) == Lower(Strip(r)) # <<"n">>

\* input(...).strip().lower() compared with "y"
Overwrite(r) == Lower(Strip(r)) = <<"y">>

\* project_dir.mkdir(parents=True, exist_ok=True)
mkdir(d, p) ==
    IF p \in DOMAIN d THEN d ELSE [q \in DOMAIN d \cup {p} |-> IF q = p THEN EmptyMap ELSE d[q]]

\* path.open("w") / path.write_text: the entry is created or replaced
write(d, p, file, content) == [d EXCEPT ![p] = Put(@, file, content)]

(***************************************************************************)
(* Spec: main() over a batch of records, of which the brand name decides   *)
(* the directory; the answers to the prompt and the second the clock shows *)
(* are inputs.                                                             *)
(***************************************************************************)
Brands == {<<"A", "b">>, <<"a", "b">>, <<"c">>}

Responses == {<<"y">>, <<" ", "Y", " ">>, <<"n">>, <<>>, <<"y", "e", "s">>}

NoResponse == <<"<none>">>
NoPath == <<>>

Batches == UNION {[1..n -> Brands] : n \in 0..MaxBatch}

\* what an earlier invocation left in a project directory: its artifacts and
\* a file added to them since
EarlierContents(slug) ==
    [f \in Range(Artifacts) \cup {"models", "notes.txt"} |-> [gen |-> 0, project |-> slug]]

\* the output root before the batch: any of the project directories may be
\* there already
InitialDisks ==
    {[p \in {<<DirNameOf(sl)>> : sl \in S} |->
         EarlierContents(CHOOSE sl \in S : <<DirNameOf(sl)>> = p)] :
        S \in SUBSET {slugify(b) : b \in Brands}}

FsInit ==
    /\ inputs \in Batches
    /\ idx = 0
    /\ pc = "main"
    /\ project_dir = NoPath
    /\ response = NoResponse
    /\ now = 0
    /\ disk \in InitialDisks

FsIdle ==
    /\ inputs = <<>>
    /\ idx = 0
    /\ pc = "idle"
    /\ project_dir = NoPath
    /\ response = NoResponse
    /\ now = 0
    /\ disk = EmptyMap

\* main() up to its loop: no input is an error exit
Main ==
    /\ pc = "main"
    /\ IF inputs = <<>>
       THEN pc' = "exit2" /\ idx' = idx
       ELSE pc' = "load" /\ idx' = 1
    /\ UNCHANGED <<inputs, project_dir, response, now, disk, slugVars, cfgVars>>

\* the loop takes the next record; generate_project_for_customer computes
\* its project directory
LoadRecord ==
    /\ pc = "load"
    /\ idx <= Len(inputs)
    /\ project_dir' = <<DirNameOf(slugify(inputs[idx]))>>
    /\ pc' = "handle"
    /\ UNCHANGED <<inputs, idx, response, now, disk, slugVars, cfgVars>>

\* handle_project_dir(project_dir)
HandleProjectDir ==
    /\ pc = "handle"
    /\ IF project_dir \notin DOMAIN disk
       THEN /\ pc' = "mkdir"
            /\ response' = NoResponse
            /\ UNCHANGED <<now, disk>>
       ELSE \E t \in (IF now = 0 THEN 1 ELSE now)..MaxTime, r \in Responses :
            /\ now' = t
            /\ response' = r
            /\ IF ~Overwrite(r)
               THEN LET new_name == <<OldNameOf(project_dir[Len(project_dir)], t)>>
                        m == move(disk, project_dir, new_name)
                    IN  /\ disk' = m.value
                        /\ pc' = IF m.exc # "" THEN "crashed" ELSE "mkdir"
               ELSE /\ disk' = rmtree(disk, project_dir)
                    /\ pc' = "mkdir"
    /\ UNCHANGED <<inputs, idx, project_dir, slugVars, cfgVars>>

\* project_dir.mkdir(parents=True, exist_ok=True)
MkdirProject ==
    /\ pc = "mkdir"
    /\ disk' = mkdir(disk, project_dir)
    /\ pc' = Artifacts[1]
    /\ UNCHANGED <<inputs, idx, project_dir, response, now, slugVars, cfgVars>>

\* dump_yaml / write_file of the next artifact
WriteArtifact ==
    /\ \E i \in DOMAIN Artifacts :
         /\ pc = Artifacts[i]
         /\ disk' = write(disk, project_dir, Artifacts[i],
                          [gen |-> idx, project |-> slugify(inputs[idx])])
         /\ pc' = IF i < Len(Artifacts) THEN Artifacts[i + 1] ELSE "models"
    /\ UNCHANGED <<inputs, idx, project_dir, response, now, slugVars, cfgVars>>

\* (project_dir / "models").mkdir(exist_ok=True), and the return to the loop
MkdirModels ==
    /\ pc = "models"
    /\ disk' = IF "models" \in DOMAIN disk[project_dir] THEN disk
               ELSE write(disk, project_dir, "models",
                          [gen |-> idx, project |-> slugify(inputs[idx])])
    /\ idx' = idx + 1
    /\ pc' = "load"
    /\ UNCHANGED <<inputs, project_dir, response, now, slugVars, cfgVars>>

\* the loop is over
Finish ==
    /\ pc = "load"
    /\ idx > Len(inputs)
    /\ pc' = "exit"
    /\ UNCHANGED <<inputs, idx, project_dir, response, now, disk, slugVars, cfgVars>>

(***************************************************************************)
(* The specifications.                                                     *)
(***************************************************************************)
Init == SlugIdle /\ ConfigIdle /\ FsInit

Next ==
    \/ Main
    \/ LoadRecord
    \/ HandleProjectDir
    \/ MkdirProject
    \/ WriteArtifact
    \/ MkdirModels
    \/ Finish

Spec == Init /\ [][Next]_vars

InitConfig == SlugIdle /\ ConfigInit /\ FsIdle

NextConfig == DeriveNames \/ BuildVars

SpecConfig == InitConfig /\ [][NextConfig]_vars

InitSlug == SlugInit /\ ConfigIdle /\ FsIdle

NextSlug == SlugOnce \/ SlugTwice

SpecSlug == InitSlug /\ [][NextSlug]_vars

(***************************************************************************)
(* The claims.                                                             *)
(***************************************************************************)

\* what the data model calls a slug: lowercase letters, digits and dashes,
\* no two dashes in a row, no dash first or last
IsSlug(s) ==
    /\ \A i \in DOMAIN s : (IsAlnum(s[i]) /\ ~IsUpper(s[i])) \/ s[i] = "-"
    /\ \A i \in DOMAIN s : i < Len(s) => ~(s[i] = "-" /\ s[i + 1] = "-")
    /\ s # <<>> => (s[1] # "-" /\ s[Len(s)] # "-")

\* C1: for every name, slugify(name) is lowercase, holds only alphanumeric
\* characters and dashes, has no two adjacent dashes and neither starts nor
\* ends with a dash.
C1_SlugShape == spc \in {"once", "twice"} => IsSlug(slug1)

\* C10: slugify returns a string for every name, and applying it to its own
\* result changes nothing.
C10_Idempotent ==
    /\ spc \in {"once", "twice"} => (slug1 # NoSlug /\ Range(slug1) \subseteq SlugAlphabet)
    /\ spc = "twice" => slug2 = slug1

\* a name slugify changes, to a slug that is not empty, and slugified again
C10_Witness == spc = "twice" /\ slug1 # name /\ slug1 # <<>> /\ slug2 = slug1

\* brand_name or "unnamed_brand"
BrandOrPlaceholder(cj) ==
    IF cj.brand_name.t = "str" /\ cj.brand_name.v # <<>>
    THEN cj.brand_name.v ELSE unnamed_brand

\* C2: for every record whose brand_name is a string, null or absent, the
\* project's name is "snowplow_unified_for_" + slugify(brand_name or
\* "unnamed_brand"), and the directory's name is made of the same slug.
C2_ProjectName ==
    (cpc # "start" /\ customer_json.brand_name.t \in {"absent", "null", "str"}) =>
        /\ raised.in # "slugify"
        /\ project_name =
             <<"snowplow_unified_for_">> \o slugify(BrandOrPlaceholder(customer_json))
        /\ dir_name = <<"dbt_">> \o slugify(BrandOrPlaceholder(customer_json))

\* C3: building the configuration raises no error, whatever the record holds.
C3_NeverRaises == cpc # "raised"

BuildAttempted ==
    cpc = "built" \/ (cpc = "raised" /\ raised.in = "build_snowplow_vars")

\* the field is a string equal to "yes" whatever its case
IsYes(x) == x.t = "str" /\ Lower(x.v) = yes

\* C8: for every record the variables subtree holds both flags, each true
\* exactly when its source field equals "yes" case-insensitively, and false
\* when the field is absent or anything else.
C8_Flags ==
    BuildAttempted =>
        /\ cpc = "built"
        /\ {"snowplow__enable_mobile_data", "snowplow__enable_web_data"}
               \subseteq DOMAIN vars_block
        /\ vars_block["snowplow__enable_mobile_data"] =
               BoolVal(IsYes(customer_json.mobile_tracking))
        /\ vars_block["snowplow__enable_web_data"] =
               BoolVal(IsYes(customer_json.web_tracking))

\* the field is there and Python takes it as true
Present(x) == x.t # "absent" /\ Truthy(x)

\* C9: in the variables subtree the brand name and the two flags, and the
\* start date and the app ids when their field is present and non-empty, are
\* the ones computed from the record's own fields, whatever user_set_variables
\* holds under the same key; every other key of user_set_variables is carried
\* over unchanged.
C9_DerivedOverride ==
    cpc = "built" =>
        LET cj   == customer_json
            user == IF cj.user_set_variables.t = "dict"
                    THEN cj.user_set_variables.d ELSE EmptyMap
        IN  /\ DerivedKeys \ {"snowplow__start_date", "snowplow__app_ids"}
                   \subseteq DOMAIN vars_block
            /\ vars_block["snowplow__brand_name"] =
                   (IF cj.brand_name.t = "absent" THEN None ELSE cj.brand_name)
            /\ vars_block["snowplow__enable_mobile_data"] =
                   BoolVal(IsYes(cj.mobile_tracking))
            /\ vars_block["snowplow__enable_web_data"] =
                   BoolVal(IsYes(cj.web_tracking))
            /\ Present(cj.historical_data_since) =>
                   /\ "snowplow__start_date" \in DOMAIN vars_block
                   /\ vars_block["snowplow__start_date"] = cj.historical_data_since
            /\ Present(cj.app_ids) =>
                   /\ "snowplow__app_ids" \in DOMAIN vars_block
                   /\ vars_block["snowplow__app_ids"] = cj.app_ids
            /\ \A k \in DOMAIN user \ DerivedKeys :
                   k \in DOMAIN vars_block /\ vars_block[k] = user[k]

\* a built record whose user_set_variables holds every derived key, and a
\* key of its own, with values that differ from the derived ones
C9_Witness ==
    /\ cpc = "built"
    /\ customer_json.user_set_variables.t = "dict"
    /\ DerivedKeys \subseteq DOMAIN customer_json.user_set_variables.d
    /\ customer_json.brand_name = Str(AcmeCo)
    /\ Present(customer_json.historical_data_since)
    /\ Present(customer_json.app_ids)
    /\ vars_block["snowplow__brand_name"] = Str(AcmeCo)
    /\ vars_block["custom_var"] = Str(X)

\* C4: a collision resolved with the rename policy leaves the prior directory,
\* contents intact, under a new name of its own <name>_old_<timestamp>, every
\* other directory as it was, and the run goes on to generate into the
\* original path; equal timestamps included.
C4_RenameKeepsPrior ==
    [][(pc = "handle" /\ project_dir \in DOMAIN disk /\ ~(Lower(Strip(response')) = <<"y">>)) =>
          LET old == <<OldNameOf(project_dir[1], now')>>
          IN  /\ pc' = "mkdir"
              /\ old \notin DOMAIN disk
              /\ DOMAIN disk' = (DOMAIN disk \ {project_dir}) \cup {old}
              /\ disk'[old] = disk[project_dir]
              /\ \A p \in DOMAIN disk \ {project_dir} : disk'[p] = disk[p]
      ]_vars

\* C5: the assembly of a record leaves alone every directory generated for
\* another record of the same batch.
C5_Isolation ==
    [][\A p \in DOMAIN disk :
          (\E f \in DOMAIN disk[p] : disk[p][f].gen \notin {0, idx}) =>
              (p \in DOMAIN disk' /\ disk'[p] = disk[p])
      ]_vars

\* everything on disk, wherever it lies
AllContent(d) ==
    UNION {{<<d[p][f].gen, d[p][f].project, f>> : f \in DOMAIN d[p]} : p \in DOMAIN d}

\* C6: contents leave the disk only in the handling of a collision whose
\* answer, trimmed and lowercased, is "y"; with any other answer, the empty
\* one included, all of them remain.
C6_DeleteOnlyOnYes ==
    [][~(AllContent(disk) \subseteq AllContent(disk')) =>
          (pc = "handle" /\ project_dir \in DOMAIN disk
              /\ Lower(Strip(response')) = <<"y">>)
      ]_vars

\* a collision answered with the empty answer: the prior directory is there
\* under its new name
C6_Witness ==
    /\ pc = "mkdir"
    /\ response = <<>>
    /\ <<OldNameOf(project_dir[1], now)>> \in DOMAIN disk
    /\ "notes.txt" \in DOMAIN disk[<<OldNameOf(project_dir[1], now)>>]

GeneratedEntries == Range(Artifacts) \cup {"models"}

\* C7: the collision is resolved before anything is written, so the project
\* directory is not there when it is made, holds only what the record in
\* hand wrote while that record writes, and after the run holds the new
\* generation's artifacts and nothing else.
C7_NoMerge ==
    /\ pc = "mkdir" => project_dir \notin DOMAIN disk
    /\ pc \in GeneratedEntries =>
           /\ project_dir \in DOMAIN disk
           /\ \A f \in DOMAIN disk[project_dir] : disk[project_dir][f].gen = idx
    /\ (pc \in {"load", "exit"} /\ idx > 1) =>
           /\ project_dir \in DOMAIN disk
           /\ DOMAIN disk[project_dir] = GeneratedEntries
           /\ \A f \in DOMAIN disk[project_dir] : disk[project_dir][f].gen = idx - 1

\* a run that met a collision, was told to overwrite, and is over
C7_Witness ==
    /\ pc = "load"
    /\ idx > 1
    /\ Overwrite(response)
    /\ DOMAIN disk[project_dir] = GeneratedEntries

====
